---- MODULE Spec2Model ----
(***************************************************************************)
(* Streamyanbal_new.py: the Streamlit script that turns a table of job     *)
(* executions into a per-day timeline.  One run of the script is modelled  *)
(* block by block: preparation of the columns, the day/period filters, the *)
(* execution numbering, the metrics, and the overlap analysis.             *)
(***************************************************************************)
EXTENDS Integers, Sequences, FiniteSets, TLC

VARIABLES raw, pc, df, resumen, dia_sel, periodo_sel, df_filtrado, metricas,
          df_sorted, traslapes

vars == <<raw, pc, df, resumen, dia_sel, periodo_sel, df_filtrado, metricas,
          df_sorted, traslapes>>

(* Largest number of rows of the loaded sheet. *)
MaxRows == 3

(***************************************************************************)
(* Input domains.  A cell of 'Hora inicio' / 'Hora fin' is a time of day   *)
(* <<h, m, s>>; a cell of 'fecha' is a date string.                        *)
(***************************************************************************)
NaT == -1

Nombres == {"ventas", "stock"}

Workspaces == {"MAC", "MAM", "OTRO"}

FechasValidas == {"2024-01-01", "2024-01-02"}

FechaMala == "s/f"

HorasValidas == {<<11, 0, 0>>, <<11, 30, 0>>, <<12, 15, 0>>, <<12, 30, 0>>}

HoraMala == <<25, 0, 0>>

(***************************************************************************)
(* Python orders strings lexicographically: "MAC" < "MAM" < "OTRO".        *)
(***************************************************************************)
WsOrden(ws) == CASE ws = "MAC" -> 1 [] ws = "MAM" -> 2 [] OTHER -> 3

(* pd.to_datetime(df['fecha'], errors='coerce').dt.date : day number or NaT *)
ParseFecha(s) ==
    CASE s = "2024-01-01" -> 1
      [] s = "2024-01-02" -> 2
      [] OTHER -> NaT

(* pd.to_datetime(fecha_str + ' ' + hora, errors='coerce'): seconds from   *)
(* the first day's midnight, NaT when the date or the time does not parse. *)
ParseTimestamp(f, h) ==
    IF f = NaT \/ ~(h[1] \in 0..23 /\ h[2] \in 0..59 /\ h[3] \in 0..59)
    THEN NaT
    ELSE (f - 1) * 86400 + h[1] * 3600 + h[2] * 60 + h[3]

(* Timestamp.hour; NaN for NaT *)
Hour(t) == IF t = NaT THEN NaT ELSE (t % 86400) \div 3600

(* the test written with <= : noon counted as morning *)
Periodo_le(x) == IF x # NaT /\ x <= 12 THEN "AM" ELSE "PM"

(* lambda x: 'AM' if x < 12 else 'PM'   (NaN < 12 is False) *)
Periodo(x) == IF x # NaT /\ x < 12 THEN "AM" ELSE "PM"

(* Timestamp.strftime('%H:%M:%S') *)
Strftime(t) == <<(t % 86400) \div 3600, (t % 3600) \div 60, t % 60>>

Min(a, b) == IF a < b THEN a ELSE b

(* df.sort_values(by=['fecha', 'Workspace', 'Inicio']): lexsort, stable *)
ClaveMenor(a, b) ==
    \/ a.fecha < b.fecha
    \/ a.fecha = b.fecha /\ WsOrden(a.Workspace) < WsOrden(b.Workspace)
    \/ a.fecha = b.fecha /\ a.Workspace = b.Workspace /\ a.Inicio < b.Inicio

ClaveIgual(a, b) ==
    a.fecha = b.fecha /\ a.Workspace = b.Workspace /\ a.Inicio = b.Inicio

SortEstable(s) ==
    LET pos(i) == Cardinality({j \in DOMAIN s :
                     \/ ClaveMenor(s[j], s[i])
                     \/ ClaveIgual(s[j], s[i]) /\ j < i}) + 1
    IN [k \in DOMAIN s |-> s[CHOOSE i \in DOMAIN s : pos(i) = k]]

(***************************************************************************)
(* Lines 53-76: the derived columns, dropna and the sort.                  *)
(***************************************************************************)
FilaPreparada(r) ==
    LET f == ParseFecha(r.fecha)
        ini == ParseTimestamp(f, r.hora_inicio)
        fin == ParseTimestamp(f, r.hora_fin)
    IN [nombre |-> r.nombre, Workspace |-> r.Workspace,
        fecha |-> f, Inicio |-> ini, Fin |-> fin,
        Periodo |-> Periodo(Hour(ini))]

Columnas(rw) == [i \in DOMAIN rw |-> FilaPreparada(rw[i])]

(* dropna(subset=['Inicio']): the end column forgotten *)
FilaValida_inicio(r) == r.Inicio # NaT

(* df.dropna(subset=['Inicio', 'Fin']) *)
FilaValida(r) == r.Inicio # NaT /\ r.Fin # NaT

Dropna(s) == SelectSeq(s, FilaValida)

Normalizar(rw) == SortEstable(Dropna(Columnas(rw)))

(* str(d) for a date d of the column 'fecha' *)
FechaStr(f) == CASE f = 1 -> "2024-01-01" [] f = 2 -> "2024-01-02"

(* dias_opciones: [str(d) for d in sorted(df['fecha'].unique(), reverse=True)] *)
DiasOpciones(d) == {FechaStr(d[i].fecha) : i \in DOMAIN d}

periodo_opciones == {"Todos", "AM (00:00 - 11:59)", "PM (12:00 - 23:59)"}

(***************************************************************************)
(* Lines 117-133: the day filter and the period filter.                    *)
(***************************************************************************)
FiltrarDia(d, dia) == LET EsDia(r) == r.fecha = dia IN SelectSeq(d, EsDia)

FiltrarPeriodo(dd, sel) ==
    LET EsAM(r) == r.Periodo = "AM"
        EsPM(r) == r.Periodo = "PM"
    IN IF sel = "AM (00:00 - 11:59)" THEN SelectSeq(dd, EsAM)
       ELSE IF sel = "PM (12:00 - 23:59)" THEN SelectSeq(dd, EsPM)
       ELSE dd

(***************************************************************************)
(* Lines 140-173: execution number, identifier and colour category.        *)
(***************************************************************************)
(* the grouping done by workspace and name instead of by name *)
NumEjecucion_ws(s, i) ==
    Cardinality({j \in 1..(i - 1) : /\ s[j].nombre = s[i].nombre
                                    /\ s[j].Workspace = s[i].Workspace}) + 1

(* df_filtrado.groupby('Nombre Modelo Semantico').cumcount() + 1 *)
NumEjecucion(s, i) ==
    Cardinality({j \in 1..(i - 1) : s[j].nombre = s[i].nombre}) + 1

(* the count taken over the whole selected day instead of the filtered rows *)
crear_identificador_dia(s, row, num) ==
    LET count == Cardinality({j \in DOMAIN df :
                     df[j].fecha = dia_sel /\ df[j].nombre = row.nombre})
    IN IF count > 1
       THEN <<row.Workspace, row.nombre, "Ej.", num>>
       ELSE <<row.Workspace, row.nombre>>

crear_identificador(s, row, num) ==
    LET count == Cardinality({j \in DOMAIN s : s[j].nombre = row.nombre})
    IN IF count > 1
       THEN <<row.Workspace, row.nombre, "Ej.", num>>
       ELSE <<row.Workspace, row.nombre>>

(* the MAC branch pasted from the MAM branch without renaming the labels *)
asignar_categoria_color_pegado(workspace, num_ejecucion) ==
    IF workspace = "MAM" \/ workspace = "MAC"
    THEN IF num_ejecucion = 1 THEN <<"MAM", "1ra ejecucion">>
         ELSE IF num_ejecucion = 2 THEN <<"MAM", "2da ejecucion">>
         ELSE <<"MAM", "3ra+ ejecucion">>
    ELSE <<workspace>>

(* the label 'MAM - 1ra ejecucion' is kept as <<"MAM", "1ra ejecucion">>, a *)
(* bare workspace as <<workspace>>                                         *)
asignar_categoria_color(workspace, num_ejecucion) ==
    IF workspace = "MAM"
    THEN IF num_ejecucion = 1 THEN <<"MAM", "1ra ejecucion">>
         ELSE IF num_ejecucion = 2 THEN <<"MAM", "2da ejecucion">>
         ELSE <<"MAM", "3ra+ ejecucion">>
    ELSE IF workspace = "MAC"
    THEN IF num_ejecucion = 1 THEN <<"MAC", "1ra ejecucion">>
         ELSE IF num_ejecucion = 2 THEN <<"MAC", "2da ejecucion">>
         ELSE <<"MAC", "3ra+ ejecucion">>
    ELSE <<workspace>>

Secuenciado(s) ==
    [i \in DOMAIN s |->
        LET num == NumEjecucion(s, i)
        IN [nombre |-> s[i].nombre,
            Workspace |-> s[i].Workspace, fecha |-> s[i].fecha,
            Inicio |-> s[i].Inicio, Fin |-> s[i].Fin,
            Periodo |-> s[i].Periodo,
            num_ejecucion |-> num,
            Identificador |-> crear_identificador(s, s[i], num),
            Categoria_Color |-> asignar_categoria_color(s[i].Workspace, num)]]

(***************************************************************************)
(* Lines 184-198 and 319-343: the metrics of the period and of the tabs.   *)
(***************************************************************************)
RECURSIVE SumaSegundos(_)
SumaSegundos(s) ==
    IF s = <<>> THEN 0
    ELSE (Head(s).Fin - Head(s).Inicio) + SumaSegundos(Tail(s))

(* f"{x:.1f}" of the quotient num/den (den > 0), in tenths: round half even *)
Formato1(num, den) ==
    LET n10 == 10 * num
        q == n10 \div den
        r == n10 % den
    IN IF 2 * r > den THEN q + 1
       ELSE IF 2 * r < den THEN q
       ELSE IF q % 2 = 0 THEN q ELSE q + 1

DeWorkspace(s, ws) == LET EsWs(r) == r.Workspace = ws IN SelectSeq(s, EsWs)

(* lines 78-90: the sidebar, over the whole prepared table *)
Resumen(d) ==
    <<[registros |-> Len(d),
       dias |-> Cardinality({d[i].fecha : i \in DOMAIN d}),
       distribucion |->
           [ws \in {d[i].Workspace : i \in DOMAIN d} |->
               [count |-> Len(DeWorkspace(d, ws)),
                porcentaje |-> Formato1(100 * Len(DeWorkspace(d, ws)), Len(d))]]]>>

(* the average taken over all the filtered rows instead of the tab's rows *)
Pestana_todas(s, ws) ==
    LET filas == DeWorkspace(s, ws)
    IN IF filas # <<>>
       THEN <<[Total |-> Len(filas),
               Promedio |-> Formato1(SumaSegundos(filas), 60 * Len(s)),
               TotalTiempo |-> Formato1(SumaSegundos(filas), 60)]>>
       ELSE <<>>

(* one tab: the three st.metric of a non-empty tab, or <<>> for the st.info *)
Pestana(s, ws) ==
    LET filas == DeWorkspace(s, ws)
    IN IF filas # <<>>
       THEN <<[Total |-> Len(filas),
               Promedio |-> Formato1(SumaSegundos(filas), 60 * Len(filas)),
               TotalTiempo |-> Formato1(SumaSegundos(filas), 60)]>>
       ELSE <<>>

Metricas(s) ==
    <<[Total |-> Len(s),
       mam_count |-> Len(DeWorkspace(s, "MAM")),
       mac_count |-> Len(DeWorkspace(s, "MAC")),
       MAM |-> Pestana(s, "MAM"),
       MAC |-> Pestana(s, "MAC")]>>

(***************************************************************************)
(* Lines 346-368: the overlap analysis.                                    *)
(***************************************************************************)
(* df_filtrado.sort_values('Inicio'): the default quicksort is not stable, *)
(* so rows with equal Inicio may come out in any order.                    *)
Permutaciones(n) ==
    {p \in [1..n -> 1..n] : \A i, j \in 1..n : i # j => p[i] # p[j]}

OrdenesPorInicio(s) ==
    {[k \in DOMAIN s |-> s[p[k]]] : p \in
        {q \in Permutaciones(Len(s)) :
            \A k \in 1..(Len(s) - 1) : s[q[k]].Inicio <= s[q[k + 1]].Inicio}}

Traslape(fila_actual, fila_siguiente) ==
    [Modelo1 |-> fila_actual.nombre, WS1 |-> fila_actual.Workspace,
     Modelo2 |-> fila_siguiente.nombre, WS2 |-> fila_siguiente.Workspace,
     Inicio |-> Strftime(fila_siguiente.Inicio),
     Fin |-> Strftime(Min(fila_actual.Fin, fila_siguiente.Fin))]

(* the comparison written with >= instead of > *)
HayTraslape_ge(fila_actual, fila_siguiente) ==
    fila_actual.Fin >= fila_siguiente.Inicio

HayTraslape(fila_actual, fila_siguiente) ==
    fila_actual.Fin > fila_siguiente.Inicio

(* the loop written with range(len(df_sorted) - 2): the last pair is skipped *)
RECURSIVE Barrido_corto(_, _)
Barrido_corto(s, i) ==
    IF i > Len(s) - 2 THEN <<>>
    ELSE (IF HayTraslape(s[i], s[i + 1])
          THEN <<Traslape(s[i], s[i + 1])>> ELSE <<>>)
         \o Barrido_corto(s, i + 1)

(* for i in range(len(df_sorted) - 1), from position i on *)
RECURSIVE Barrido(_, _)
Barrido(s, i) ==
    IF i > Len(s) - 1 THEN <<>>
    ELSE (IF HayTraslape(s[i], s[i + 1])
          THEN <<Traslape(s[i], s[i + 1])>> ELSE <<>>)
         \o Barrido(s, i + 1)

(***************************************************************************)
(* The script, block by block.                                             *)
(***************************************************************************)
SinSeleccion == ""

Reinicio ==
    /\ df' = <<>>
    /\ resumen' = <<>>
    /\ dia_sel' = NaT
    /\ periodo_sel' = SinSeleccion
    /\ df_filtrado' = <<>>
    /\ metricas' = <<>>
    /\ df_sorted' = <<>>
    /\ traslapes' = <<>>

(* lines 53-90 *)
Preparar ==
    /\ pc = "inicio"
    /\ df' = Normalizar(raw)
    /\ IF Dropna(Columnas(raw)) = <<>>
       THEN pc' = "stop_sin_datos" /\ resumen' = <<>>
       ELSE pc' = "filtros" /\ resumen' = Resumen(Normalizar(raw))
    /\ UNCHANGED <<raw, dia_sel, periodo_sel, df_filtrado, metricas,
                   df_sorted, traslapes>>

(* lines 98-137 *)
Filtrar ==
    /\ pc = "filtros"
    /\ \E dia_sel_str \in DiasOpciones(df), sel \in periodo_opciones :
          LET dia == ParseFecha(dia_sel_str)
              df_dia == FiltrarDia(df, dia)
              filtrado == FiltrarPeriodo(df_dia, sel)
          IN /\ dia_sel' = dia
             /\ periodo_sel' = sel
             /\ IF df_dia = <<>>
                THEN df_filtrado' = <<>> /\ pc' = "stop_dia"
                ELSE /\ df_filtrado' = filtrado
                     /\ pc' = IF filtrado = <<>> THEN "stop_periodo"
                              ELSE "secuencia"
    /\ UNCHANGED <<raw, df, resumen, metricas, df_sorted, traslapes>>

(* lines 140-173 *)
Secuenciar ==
    /\ pc = "secuencia"
    /\ df_filtrado' = Secuenciado(df_filtrado)
    /\ pc' = "metricas"
    /\ UNCHANGED <<raw, df, resumen, dia_sel, periodo_sel, metricas, df_sorted,
                   traslapes>>

(* lines 184-198, 319-343 *)
Medir ==
    /\ pc = "metricas"
    /\ metricas' = Metricas(df_filtrado)
    /\ pc' = "traslapes"
    /\ UNCHANGED <<raw, df, resumen, dia_sel, periodo_sel, df_filtrado,
                   df_sorted, traslapes>>

(* lines 346-368 *)
AnalizarTraslapes ==
    /\ pc = "traslapes"
    /\ \E orden \in OrdenesPorInicio(df_filtrado) :
          /\ df_sorted' = orden
          /\ traslapes' = Barrido(orden, 1)
    /\ pc' = "fin"
    /\ UNCHANGED <<raw, df, resumen, dia_sel, periodo_sel, df_filtrado, metricas>>

(* line 111 and every widget change: the script runs again from the top *)
Actualizar ==
    /\ pc \in {"fin", "stop_periodo"}
    /\ pc' = "inicio"
    /\ Reinicio
    /\ UNCHANGED raw

Next ==
    \/ Preparar
    \/ Filtrar
    \/ Secuenciar
    \/ Medir
    \/ AnalizarTraslapes
    \/ Actualizar

(***************************************************************************)
(* The sheets a run starts from.                                           *)
(***************************************************************************)
Fila(n, w, f, hi, hf) ==
    [nombre |-> n, Workspace |-> w, fecha |-> f, hora_inicio |-> hi,
     hora_fin |-> hf]

Hojas(Filas) == UNION {[1..n -> Filas] : n \in 0..MaxRows}

InitCon(Filas) ==
    /\ raw \in Hojas(Filas)
    /\ pc = "inicio"
    /\ df = <<>>
    /\ resumen = <<>>
    /\ dia_sel = NaT
    /\ periodo_sel = SinSeleccion
    /\ df_filtrado = <<>>
    /\ metricas = <<>>
    /\ df_sorted = <<>>
    /\ traslapes = <<>>

(* one workload of one workspace on one day, every pair of times *)
FilasTraslape ==
    {Fila("ventas", "MAM", "2024-01-01", hi, hf) :
        hi \in HorasValidas, hf \in HorasValidas}
    \cup {Fila("ventas", "MAM", "2024-01-01", <<11, 0, 0>>, HoraMala)}

InitTraslape == InitCon(FilasTraslape)

SpecTraslape == InitTraslape /\ [][Next]_vars

(* two workloads in three workspaces, morning and afternoon, two days *)
FilasSecuencia ==
    {Fila(n, w, "2024-01-01", hi, <<12, 30, 0>>) :
        n \in Nombres, w \in Workspaces, hi \in {<<11, 0, 0>>, <<12, 15, 0>>}}
    \cup {Fila(n, "MAM", "2024-01-02", <<11, 0, 0>>, <<12, 30, 0>>) : n \in Nombres}
    \cup {Fila("ventas", "MAM", "2024-01-01", HoraMala, <<12, 30, 0>>)}

InitSecuencia == InitCon(FilasSecuencia)

SpecSecuencia == InitSecuencia /\ [][Next]_vars

(* three workspaces, durations of 30, 45, 60 and -75 minutes *)
FilasMetricas ==
    {Fila("ventas", w, "2024-01-01", h[1], h[2]) :
        w \in Workspaces,
        h \in {<<<<11, 0, 0>>, <<11, 30, 0>>>>, <<<<11, 30, 0>>, <<12, 15, 0>>>>,
               <<<<11, 30, 0>>, <<12, 30, 0>>>>, <<<<12, 15, 0>>, <<11, 0, 0>>>>}}
    \cup {Fila("ventas", "MAM", FechaMala, <<11, 0, 0>>, <<11, 30, 0>>)}

InitMetricas == InitCon(FilasMetricas)

SpecMetricas == InitMetricas /\ [][Next]_vars

(* readable rows and rows with an unreadable date, start or end *)
FilasInvalidas ==
    {Fila(n, "MAM", "2024-01-01", h[1], h[2]) :
        n \in Nombres,
        h \in {<<<<11, 0, 0>>, <<12, 15, 0>>>>, <<<<11, 30, 0>>, <<12, 30, 0>>>>,
               <<<<12, 15, 0>>, <<12, 30, 0>>>>}}
    \cup {Fila("ventas", "MAM", "2024-01-02", <<11, 0, 0>>, <<11, 30, 0>>)}
    \cup {Fila(n, "MAM", FechaMala, <<11, 0, 0>>, <<11, 30, 0>>) : n \in Nombres}
    \cup {Fila(n, "MAM", "2024-01-01", HoraMala, <<11, 30, 0>>) : n \in Nombres}
    \cup {Fila(n, "MAM", "2024-01-01", <<11, 0, 0>>, HoraMala) : n \in Nombres}

InitInvalidas == InitCon(FilasInvalidas)

SpecInvalidas == InitInvalidas /\ [][Next]_vars

(***************************************************************************)
(* Properties of the overlap analysis.                                     *)
(***************************************************************************)
T(f, h) == ParseTimestamp(ParseFecha(f), h)

Segundos(hms) == hms[1] * 3600 + hms[2] * 60 + hms[3]

Veces(s, r) == Cardinality({i \in DOMAIN s : s[i] = r})

MismasFilas(s, t) ==
    /\ Len(s) = Len(t)
    /\ \A i \in DOMAIN s : Veces(s, s[i]) = Veces(t, s[i])

(* C1: df_sorted is df_filtrado ordered by start; a pair is reported for   *)
(* the positions (i, i+1) exactly when row i ends strictly after row i+1   *)
(* starts, in the order of i, and it carries the start of row i+1 and the  *)
(* smaller of the two ends.                                                *)
C1_ParesAdyacentes ==
    pc = "fin" =>
        LET n == Len(df_sorted)
            cruces == {i \in 1..(n - 1) :
                          df_sorted[i].Fin > df_sorted[i + 1].Inicio}
            lugar(i) == Cardinality({j \in cruces : j <= i})
        IN /\ MismasFilas(df_sorted, df_filtrado)
           /\ \A i \in 1..(n - 1) :
                 df_sorted[i].Inicio <= df_sorted[i + 1].Inicio
           /\ Len(traslapes) = Cardinality(cruces)
           /\ \A i \in cruces :
                 LET t == traslapes[lugar(i)]
                     a == df_sorted[i]
                     b == df_sorted[i + 1]
                 IN /\ t.Modelo1 = a.nombre /\ t.WS1 = a.Workspace
                    /\ t.Modelo2 = b.nombre /\ t.WS2 = b.Workspace
                    /\ t.Inicio = Strftime(b.Inicio)
                    /\ t.Fin = Strftime(IF a.Fin <= b.Fin THEN a.Fin ELSE b.Fin)

(* A 11:00-12:15 and B 11:30-12:30 cross, B and C 12:30-12:30 only touch:  *)
(* exactly one pair, 11:30-12:15.                                          *)
C1_Witness ==
    /\ pc = "fin"
    /\ Len(df_sorted) = 3
    /\ df_sorted[1].Inicio = T("2024-01-01", <<11, 0, 0>>)
    /\ df_sorted[1].Fin = T("2024-01-01", <<12, 15, 0>>)
    /\ df_sorted[2].Inicio = T("2024-01-01", <<11, 30, 0>>)
    /\ df_sorted[2].Fin = T("2024-01-01", <<12, 30, 0>>)
    /\ df_sorted[3].Inicio = T("2024-01-01", <<12, 30, 0>>)
    /\ Len(traslapes) = 1
    /\ traslapes[1].Inicio = <<11, 30, 0>>
    /\ traslapes[1].Fin = <<12, 15, 0>>

(* C8: when the analysis reports no pair, no row ends after the start of   *)
(* any later row of the start order, adjacent or not.                      *)
C8_SinParesSinCruces ==
    (pc = "fin" /\ traslapes = <<>>) =>
        \A i, j \in DOMAIN df_sorted :
            i < j => ~(df_sorted[i].Fin > df_sorted[j].Inicio)

C8_Witness ==
    /\ pc = "fin"
    /\ traslapes = <<>>
    /\ Len(df_sorted) = 3
    /\ df_sorted[1].Fin > df_sorted[1].Inicio
    /\ df_sorted[3].Inicio > df_sorted[1].Inicio

(* C10: every reported pair has overlap_start < overlap_end.               *)
C10_ParNoVacio ==
    pc = "fin" =>
        \A k \in DOMAIN traslapes :
            Segundos(traslapes[k].Inicio) < Segundos(traslapes[k].Fin)

(***************************************************************************)
(* Properties of the numbering, the identifiers and the categories.        *)
(***************************************************************************)
Numerado == {"metricas", "traslapes", "fin"}

Filtrado == {"stop_periodo", "secuencia", "metricas", "traslapes", "fin"}

(* the positions of df that the selection (day, period) matches, read off  *)
(* the start hour                                                          *)
Seleccion(d, dia, sel) ==
    {i \in DOMAIN d :
        /\ d[i].fecha = dia
        /\ \/ sel = "Todos"
           \/ sel = "AM (00:00 - 11:59)" /\ Hour(d[i].Inicio) < 12
           \/ sel = "PM (12:00 - 23:59)" /\ Hour(d[i].Inicio) >= 12}

(* C2: in every filtered view, the execution numbers of a workload that    *)
(* appears k times are exactly 1..k, each used once.                       *)
C2_OrdinalesTotales ==
    pc \in Numerado =>
        /\ df_filtrado # <<>>
        /\ Len(df_filtrado) = Cardinality(Seleccion(df, dia_sel, periodo_sel))
        /\ \A n \in Nombres :
             LET filas == {i \in DOMAIN df_filtrado : df_filtrado[i].nombre = n}
             IN /\ {df_filtrado[i].num_ejecucion : i \in filas}
                      = 1..Cardinality(filas)
                /\ \A i, j \in filas :
                      df_filtrado[i].num_ejecucion = df_filtrado[j].num_ejecucion
                          => i = j

(* the afternoon view of a day whose morning holds the same workload under *)
(* another workspace: the numbering starts again from 1                    *)
C2_Witness ==
    /\ pc = "fin"
    /\ periodo_sel = "PM (12:00 - 23:59)"
    /\ Len(df_filtrado) = 2
    /\ df_filtrado[1].nombre = df_filtrado[2].nombre
    /\ df_filtrado[1].Workspace # df_filtrado[2].Workspace
    /\ df_filtrado[2].num_ejecucion = 2
    /\ \E i \in DOMAIN df : /\ df[i].fecha = dia_sel
                            /\ df[i].Periodo = "AM"
                            /\ df[i].nombre = df_filtrado[1].nombre

(* C3: the category is decided by (workspace, execution number): three     *)
(* labels for MAM, three for MAC, the bare workspace otherwise.            *)
C3_Categorias ==
    pc \in Numerado =>
        \A i \in DOMAIN df_filtrado :
            LET r == df_filtrado[i]
                etiqueta == CASE r.num_ejecucion = 1 -> "1ra ejecucion"
                              [] r.num_ejecucion = 2 -> "2da ejecucion"
                              [] r.num_ejecucion >= 3 -> "3ra+ ejecucion"
            IN /\ r.Categoria_Color # <<>>
               /\ r.Categoria_Color[1] = r.Workspace
               /\ r.Workspace \in {"MAM", "MAC"}
                     => r.Categoria_Color = <<r.Workspace, etiqueta>>
               /\ r.Workspace \notin {"MAM", "MAC"}
                     => r.Categoria_Color = <<r.Workspace>>

C3_Witness ==
    /\ pc = "fin"
    /\ Len(df_filtrado) = 3
    /\ df_filtrado[1].Categoria_Color = <<"MAC", "1ra ejecucion">>
    /\ df_filtrado[2].Categoria_Color = <<"MAC", "2da ejecucion">>
    /\ df_filtrado[3].Categoria_Color = <<"MAM", "3ra+ ejecucion">>

(* C4: the identifier carries the '(Ej. n)' suffix exactly when the        *)
(* selection (day and period) matches more than one row of the workload.   *)
C4_Identificador ==
    pc \in Numerado =>
        \A i \in DOMAIN df_filtrado :
            LET r == df_filtrado[i]
                cuenta == Cardinality({j \in Seleccion(df, dia_sel, periodo_sel) :
                                          df[j].nombre = r.nombre})
            IN r.Identificador =
                 IF cuenta > 1
                 THEN <<r.Workspace, r.nombre, "Ej.", r.num_ejecucion>>
                 ELSE <<r.Workspace, r.nombre>>

(* a workload that runs once in the morning and once in the afternoon,     *)
(* seen in the morning view: no suffix                                     *)
C4_Witness ==
    /\ pc = "fin"
    /\ periodo_sel = "AM (00:00 - 11:59)"
    /\ Len(df_filtrado) = 1
    /\ Len(df_filtrado[1].Identificador) = 2
    /\ \E i \in DOMAIN df : /\ df[i].fecha = dia_sel
                            /\ df[i].Periodo = "PM"
                            /\ df[i].nombre = df_filtrado[1].nombre

(* C7: a selection that matches no row stops the run at the period         *)
(* warning with nothing computed, and only such a selection does; a row    *)
(* belongs to AM exactly when its start hour is below 12.                  *)
C7_SeleccionVacia ==
    /\ pc \in {"inicio", "filtros", "stop_sin_datos", "stop_periodo",
                "secuencia", "metricas", "traslapes", "fin"}
    /\ \A i \in DOMAIN df :
          (df[i].Periodo = "AM") = (Hour(df[i].Inicio) < 12)
    /\ pc \in Filtrado =>
          /\ Len(df_filtrado) = Cardinality(Seleccion(df, dia_sel, periodo_sel))
          /\ (pc = "stop_periodo") = (Seleccion(df, dia_sel, periodo_sel) = {})
    /\ pc = "stop_periodo" =>
          /\ df_filtrado = <<>>
          /\ metricas = <<>>
          /\ df_sorted = <<>>
          /\ traslapes = <<>>

(* the afternoon of a day whose executions all start before 12:00 *)
C7_Witness ==
    /\ pc = "stop_periodo"
    /\ periodo_sel = "PM (12:00 - 23:59)"
    /\ \E i \in DOMAIN df : df[i].fecha = dia_sel
    /\ \A i \in DOMAIN df : df[i].fecha = dia_sel => Hour(df[i].Inicio) < 12

(* C9: of two executions of one workload, the one with the smaller         *)
(* execution number starts no later.                                       *)
C9_OrdinalesCronologicos ==
    pc \in Numerado =>
        \A i, j \in DOMAIN df_filtrado :
            (/\ df_filtrado[i].nombre = df_filtrado[j].nombre
             /\ df_filtrado[i].num_ejecucion < df_filtrado[j].num_ejecucion)
                => df_filtrado[i].Inicio <= df_filtrado[j].Inicio

(***************************************************************************)
(* Properties of the metrics.                                              *)
(***************************************************************************)
RECURSIVE SumaDe(_, _)
SumaDe(s, I) ==
    IF I = {} THEN 0
    ELSE LET i == CHOOSE k \in I : TRUE
         IN (s[i].Fin - s[i].Inicio) + SumaDe(s, I \ {i})

FilasDe(ws) == {i \in DOMAIN df_filtrado : df_filtrado[i].Workspace = ws}

Presentes == {df_filtrado[i].Workspace : i \in DOMAIN df_filtrado}

(* what the page reports for a workspace: <<>> when it reports nothing *)
Informe(ws) ==
    IF ws = "MAM" THEN metricas[1].MAM
    ELSE IF ws = "MAC" THEN metricas[1].MAC
    ELSE <<>>

(* v is x / den shown with one decimal, v in tenths *)
UnDecimal(v, x, den) ==
    LET resto == 10 * x - v * den
    IN 2 * resto <= den /\ 2 * resto >= -den

(* the count, the sum in minutes and the mean of the rows of ws *)
InformeCorrecto(ws) ==
    /\ Informe(ws) # <<>>
    /\ Informe(ws)[1].Total = Cardinality(FilasDe(ws))
    /\ UnDecimal(Informe(ws)[1].TotalTiempo, SumaDe(df_filtrado, FilasDe(ws)), 60)
    /\ UnDecimal(Informe(ws)[1].Promedio, SumaDe(df_filtrado, FilasDe(ws)),
                 60 * Cardinality(FilasDe(ws)))

(* C6 as stated: every workspace present in the filtered rows gets its     *)
(* count, sum and mean, and the reported counts add up to the total.       *)
C6_TodosLosWorkspaces ==
    pc \in {"traslapes", "fin"} =>
        /\ \A ws \in Presentes : InformeCorrecto(ws)
        /\ metricas[1].mam_count + metricas[1].mac_count = Len(df_filtrado)

(* C6 amended: MAM and MAC, when present, get their count, their sum in    *)
(* minutes and their mean to one decimal; the other workspaces only count  *)
(* in the total, which is the MAM count plus the MAC count plus their      *)
(* rows, and in the sidebar, which counts every workspace over the whole   *)
(* prepared table.                                                         *)
C6_MamMac ==
    pc \in {"traslapes", "fin"} =>
        /\ \A ws \in {"MAM", "MAC"} :
              IF ws \in Presentes THEN InformeCorrecto(ws) ELSE Informe(ws) = <<>>
        /\ metricas[1].Total = Len(df_filtrado)
        /\ metricas[1].mam_count = Cardinality(FilasDe("MAM"))
        /\ metricas[1].mac_count = Cardinality(FilasDe("MAC"))
        /\ metricas[1].mam_count + metricas[1].mac_count
             + Cardinality({i \in DOMAIN df_filtrado :
                   df_filtrado[i].Workspace \notin {"MAM", "MAC"}})
             = metricas[1].Total
        /\ \A ws \in Presentes :
              /\ ws \in DOMAIN resumen[1].distribucion
              /\ resumen[1].distribucion[ws].count
                   = Cardinality({i \in DOMAIN df : df[i].Workspace = ws})

(* durations of 30, 45 and 60 minutes: 3 rows, 135.0 minutes, mean 45.0 *)
C6_Witness ==
    /\ pc = "fin"
    /\ {df_filtrado[i].Fin - df_filtrado[i].Inicio : i \in FilasDe("MAM")}
         = {1800, 2700, 3600}
    /\ metricas[1].MAM = <<[Total |-> 3, Promedio |-> 450, TotalTiempo |-> 1350]>>

(***************************************************************************)
(* Properties of the rows that do not parse.                               *)
(***************************************************************************)
Legible(r) ==
    /\ r.fecha \in FechasValidas
    /\ r.hora_inicio \in HorasValidas
    /\ r.hora_fin \in HorasValidas

Limpia(rw) == SelectSeq(rw, Legible)

SeleccionLimpia ==
    FiltrarPeriodo(FiltrarDia(Normalizar(Limpia(raw)), dia_sel), periodo_sel)

(* C5: every derived value is the one the sheet without its unreadable     *)
(* rows gives: the prepared table and the day list, the point where the    *)
(* run stops, the filtered rows with their numbers, identifiers and        *)
(* categories, the metrics and the overlap pairs.                          *)
C5_FilasInvalidasFuera ==
    /\ pc # "inicio" =>
          /\ df = Normalizar(Limpia(raw))
          /\ Len(df) = Cardinality({i \in DOMAIN raw : Legible(raw[i])})
          /\ \A i \in DOMAIN df : df[i].Inicio # NaT /\ df[i].Fin # NaT
          /\ (pc = "stop_sin_datos") = (Limpia(raw) = <<>>)
          /\ pc # "stop_sin_datos" => resumen = Resumen(Normalizar(Limpia(raw)))
    /\ pc \in Filtrado =>
          FechaStr(dia_sel) \in DiasOpciones(Normalizar(Limpia(raw)))
    /\ pc \in {"stop_periodo", "secuencia"} => df_filtrado = SeleccionLimpia
    /\ pc \in Numerado => df_filtrado = Secuenciado(SeleccionLimpia)
    /\ pc \in {"traslapes", "fin"} =>
          metricas = Metricas(Secuenciado(SeleccionLimpia))
    /\ pc = "fin" =>
          /\ df_sorted \in OrdenesPorInicio(Secuenciado(SeleccionLimpia))
          /\ traslapes = Barrido(df_sorted, 1)

(* a row with an unreadable end between two readable rows of its workload: *)
(* the readable rows are numbered 1 and 2 and are compared with each other *)
C5_Witness ==
    /\ pc = "fin"
    /\ Len(raw) = 3
    /\ Legible(raw[1]) /\ Legible(raw[3])
    /\ raw[2].hora_fin = HoraMala
    /\ raw[1].nombre = raw[2].nombre /\ raw[2].nombre = raw[3].nombre
    /\ Len(df_filtrado) = 2
    /\ df_filtrado[2].num_ejecucion = 2
    /\ Len(traslapes) = 1

====
